---------------------------- MODULE Spec2Model ----------------------------
(***************************************************************************)
(* Resume analyzer backend: the upload pipeline (authMiddleware, multer,   *)
(* handleResumeUpload, analyzeWithAI, ResumeAnalysis.create) and the two   *)
(* read endpoints (GET /history, GET /download/:id).                       *)
(*                                                                         *)
(* The string functions of the code (the regular expressions, the          *)
(* whitespace normalisation, trim, path.extname) work on sequences of      *)
(* one-character strings, character by character as the JavaScript does.   *)
(* The state holds each text as a TLA+ string; chars gives its characters  *)
(* and str the text of a sequence of characters.                           *)
(***************************************************************************)
EXTENDS Integers, Sequences, FiniteSets, TLC

(***************************************************************************)
(* Bounds of the model.                                                    *)
(***************************************************************************)
\* number of upload requests over a run
MaxReq == 2
\* Date.now() takes the values 0..MaxTime
MaxTime == 1
\* Math.round(Math.random() * 1e9) takes the values 0..MaxRand
MaxRand == 0

(***************************************************************************)
(* Characters and strings.                                                 *)
(***************************************************************************)
WS == {" ", "\n", "\t"}

Digits == <<"0","1","2","3","4","5","6","7","8","9">>

DigitChars == {Digits[i] : i \in 1..Len(Digits)}

DigitVal(c) == (CHOOSE i \in 1..Len(Digits) : Digits[i] = c) - 1

UpperChars == <<"A","B","C","D","E","F","G","H","I","J","K","L","M","N","O","P","Q","R","S","T","U","V","W","X","Y","Z">>

LowerChars == <<"a","b","c","d","e","f","g","h","i","j","k","l","m","n","o","p","q","r","s","t","u","v","w","x","y","z">>

\* String.prototype.toLowerCase, one character
LowerChar(c) ==
  IF \E i \in 1..Len(UpperChars) : UpperChars[i] = c
  THEN LowerChars[CHOOSE i \in 1..Len(UpperChars) : UpperChars[i] = c]
  ELSE c

toLowerCase(s) == [i \in 1..Len(s) |-> LowerChar(s[i])]

\* the literal lit stands in s at position i (ci: under the regex flag i)
LitAt(s, i, lit, ci) ==
  /\ i >= 1
  /\ i + Len(lit) - 1 <= Len(s)
  /\ \A k \in 1..Len(lit) :
       IF ci THEN LowerChar(s[i + k - 1]) = LowerChar(lit[k])
             ELSE s[i + k - 1] = lit[k]

Contains(s, lit) == \E i \in 1..Len(s) : LitAt(s, i, lit, FALSE)

\* first position from i on whose character is not in the class (Len(s)+1 if none)
RunEnd(s, i, class) ==
  LET stops == {j \in i..Len(s) : s[j] \notin class}
  IN  IF stops = {} THEN Len(s) + 1
      ELSE CHOOSE j \in stops : \A k \in stops : j <= k

IsSpace(c) == c \in WS

\* String.prototype.trim
trim(s) ==
  LET keep == {i \in 1..Len(s) : ~IsSpace(s[i])}
  IN  IF keep = {} THEN <<>>
      ELSE LET lo == CHOOSE i \in keep : \A k \in keep : i <= k
               hi == CHOOSE i \in keep : \A k \in keep : i >= k
           IN  SubSeq(s, lo, hi)

\* s.replace(/\s+/g, " "): every maximal run of whitespace becomes one space
RECURSIVE CollapseFrom(_, _)
CollapseFrom(s, i) ==
  IF i > Len(s) THEN <<>>
  ELSE IF IsSpace(s[i])
       THEN <<" ">> \o CollapseFrom(s, RunEnd(s, i, WS))
       ELSE <<s[i]>> \o CollapseFrom(s, i + 1)

\* resumeText.replace(/\s+/g, " ").trim()
cleanText(s) == trim(CollapseFrom(s, 1))

\* path.extname: from the last "." of the name to its end; "" when there is no
\* "." or the only "." is the first character
extname(name) ==
  LET dots == {i \in 1..Len(name) : name[i] = "."}
  IN  IF dots = {} THEN <<>>
      ELSE LET d == CHOOSE i \in dots : \A k \in dots : i >= k
           IN  IF d = 1 THEN <<>> ELSE SubSeq(name, d, Len(name))

(***************************************************************************)
(* Numbers: the value m / 10^e, with m not a multiple of 10 unless e = 0,  *)
(* so that equal values have equal representations (7.0 = 7).              *)
(***************************************************************************)
RECURSIVE Pow10(_)
Pow10(e) == IF e = 0 THEN 1 ELSE 10 * Pow10(e - 1)

RECURSIVE Reduce(_, _)
Reduce(m, e) ==
  IF e > 0 /\ m % 10 = 0 THEN Reduce(m \div 10, e - 1) ELSE [m |-> m, e |-> e]

Num(m, e) == Reduce(m, e)

\* JavaScript's null where a number may stand (no number has e < 0)
null == [m |-> 0, e |-> -1]


RECURSIVE DigitsVal(_)
DigitsVal(ds) ==
  IF ds = <<>> THEN 0
  ELSE 10 * DigitsVal(SubSeq(ds, 1, Len(ds) - 1)) + DigitVal(ds[Len(ds)])

\* parseFloat of a string of the form \d+(\.\d+)?
parseFloat(g) ==
  LET dots == {i \in 1..Len(g) : g[i] = "."}
  IN  IF dots = {} THEN Num(DigitsVal(g), 0)
      ELSE LET d == CHOOSE i \in dots : TRUE
               frac == SubSeq(g, d + 1, Len(g))
           IN  Num(DigitsVal(SubSeq(g, 1, d - 1)) * Pow10(Len(frac)) + DigitsVal(frac),
                   Len(frac))

\* min: [0, ...] and max: [10, ...] of the schema's atsScore
InRange(v) == v.m >= 0 /\ v.m <= 10 * Pow10(v.e)

(***************************************************************************)
(* The score regex of analyzeWithAI.                                       *)
(***************************************************************************)
NoMatch == <<>>

\* (\d+(\.\d+)?)\/10 at position i: the captured group, or NoMatch.  \d+ and the
\* optional fraction are greedy; giving digits back never helps, because the
\* character after a shorter run is a digit and neither "." nor "/".
NumberOver10At(s, i) ==
  LET p == RunEnd(s, i, DigitChars)
      q == RunEnd(s, p + 1, DigitChars)
  IN  IF p = i THEN NoMatch
      ELSE IF LitAt(s, p, <<".">>, FALSE) /\ q > p + 1 /\ LitAt(s, q, <<"/","1","0">>, FALSE)
           THEN SubSeq(s, i, q - 1)
           ELSE IF LitAt(s, p, <<"/","1","0">>, FALSE) THEN SubSeq(s, i, p - 1)
                ELSE NoMatch

\* (?:Score|Rating):\s*(\d+(\.\d+)?)\/10 at position i
ScoreTailAt(s, i) ==
  LET word == IF LitAt(s, i, <<"S","c","o","r","e">>, TRUE) THEN Len(<<"S","c","o","r","e">>)
              ELSE IF LitAt(s, i, <<"R","a","t","i","n","g">>, TRUE) THEN Len(<<"R","a","t","i","n","g">>)
              ELSE 0
      colon == i + word
  IN  IF word = 0 \/ ~LitAt(s, colon, <<":">>, FALSE) THEN NoMatch
      ELSE NumberOver10At(s, RunEnd(s, colon + 1, WS))

\* /ATS Compatibility (?:Score|Rating):\s*(\d+(\.\d+)?)\/10/i at position i
ScoreRegexAt(s, i) ==
  IF LitAt(s, i, <<"A","T","S"," ","C","o","m","p","a","t","i","b","i","l","i","t","y"," ">>, TRUE)
  THEN ScoreTailAt(s, i + Len(<<"A","T","S"," ","C","o","m","p","a","t","i","b","i","l","i","t","y"," ">>))
  ELSE NoMatch

\* content.match(regex)[1]: the group of the leftmost match, or NoMatch
ScoreMatch(content) ==
  LET starts == {i \in 1..Len(content) : ScoreRegexAt(content, i) # NoMatch}
  IN  IF starts = {} THEN NoMatch
      ELSE ScoreRegexAt(content, CHOOSE i \in starts : \A k \in starts : i <= k)

\* let atsScore = null; if (match && match[1]) atsScore = parseFloat(match[1])
parseScore(content) ==
  LET g == ScoreMatch(content)
  IN  IF g = NoMatch THEN null ELSE parseFloat(g)

(***************************************************************************)
(* The texts of the model.                                                 *)
(***************************************************************************)
\* JavaScript's undefined where a string may stand (no text is this word)
undefined == "undefined"

chars ==
  "" :> <<>> @@ "Frontend Developer" :> <<"F","r","o","n","t","e","n","d"," ","D","e","v","e","l","o","p","e","r">> @@ " BE " :> <<" ","B","E"," ">> @@ "BE" :> <<"B","E">> @@
  "a.pdf" :> <<"a",".","p","d","f">> @@ " B.DOCX" :> <<" ","B",".","D","O","C","X">> @@ "B.DOCX" :> <<"B",".","D","O","C","X">> @@ "c.doc" :> <<"c",".","d","o","c">> @@ "d.txt" :> <<"d",".","t","x","t">> @@ "e.docm" :> <<"e",".","d","o","c","m">> @@
  ".DOCX" :> <<".","D","O","C","X">> @@ ".pdf" :> <<".","p","d","f">> @@ ".docx" :> <<".","d","o","c","x">> @@ ".doc" :> <<".","d","o","c">> @@ ".txt" :> <<".","t","x","t">> @@ ".docm" :> <<".","d","o","c","m">> @@
  "application/pdf" :> <<"a","p","p","l","i","c","a","t","i","o","n","/","p","d","f">> @@ "application/msword" :> <<"a","p","p","l","i","c","a","t","i","o","n","/","m","s","w","o","r","d">> @@ "text/plain" :> <<"t","e","x","t","/","p","l","a","i","n">> @@
  "application/vnd.openxmlformats-officedocument.wordprocessingml.document" :> <<"a","p","p","l","i","c","a","t","i","o","n","/","v","n","d",".","o","p","e","n","x","m","l","f","o","r","m","a","t","s","-","o","f","f","i","c","e","d","o","c","u","m","e","n","t",".","w","o","r","d","p","r","o","c","e","s","s","i","n","g","m","l",".","d","o","c","u","m","e","n","t">> @@
  " J\n\nD \t" :> <<" ","J","\n","\n","D"," ","\t">> @@ " \n" :> <<" ","\n">> @@ "J D" :> <<"J"," ","D">> @@
  "ATS Score: 7/10" :> <<"A","T","S"," ","S","c","o","r","e",":"," ","7","/","1","0">> @@ "ATS Compatibility Rating: 8.5/10" :> <<"A","T","S"," ","C","o","m","p","a","t","i","b","i","l","i","t","y"," ","R","a","t","i","n","g",":"," ","8",".","5","/","1","0">> @@
  "ats compatibility score:6/10 ATS Compatibility Score: 3/10" :> <<"a","t","s"," ","c","o","m","p","a","t","i","b","i","l","i","t","y"," ","s","c","o","r","e",":","6","/","1","0"," ","A","T","S"," ","C","o","m","p","a","t","i","b","i","l","i","t","y"," ","S","c","o","r","e",":"," ","3","/","1","0">> @@
  "ATS Compatibility Score: 15/10" :> <<"A","T","S"," ","C","o","m","p","a","t","i","b","i","l","i","t","y"," ","S","c","o","r","e",":"," ","1","5","/","1","0">> @@
  "Error: Could not retrieve AI analysis due to an API failure. Please check backend logs." :> <<"E","r","r","o","r",":"," ","C","o","u","l","d"," ","n","o","t"," ","r","e","t","r","i","e","v","e"," ","A","I"," ","a","n","a","l","y","s","i","s"," ","d","u","e"," ","t","o"," ","a","n"," ","A","P","I"," ","f","a","i","l","u","r","e","."," ","P","l","e","a","s","e"," ","c","h","e","c","k"," ","b","a","c","k","e","n","d"," ","l","o","g","s",".">>

str(s) == CHOOSE t \in DOMAIN chars : chars[t] = s

\* a function of the model's inputs as a table, each value computed once
table(f) == f @@ <<>>

(***************************************************************************)
(* Inputs of the requests.                                                 *)
(***************************************************************************)
Reqs == 1..MaxReq

\* decoded.userId of the tokens that verify
Users == {"u1", "u2"}

\* req.body.jobRole: absent, or text with blanks around it
BodyJobRoles == {undefined, " BE "}

OriginalNames == {"a.pdf", " B.DOCX", "c.doc", "d.txt", "e.docm"}

MimeTypes ==
  {"application/pdf", "application/msword", "text/plain",
   "application/vnd.openxmlformats-officedocument.wordprocessingml.document"}

\* what the uploaded bytes are: a document with text, one with blank pages, or
\* bytes the decoder rejects
Docs == {"cv", "blank", "corrupt"}

\* pdfData.text / data.value of a document the decoder accepts
RawText(doc) == IF doc = "cv" THEN " J\n\nD \t" ELSE " \n"

\* the text handleResumeUpload keeps of a decoded document:
\* resumeText.replace(/\s+/g, " ").trim()
textOf == table([doc \in {"cv", "blank"} |-> str(cleanText(chars[RawText(doc)]))])

\* limits.fileSize
fileSize == 10 * 1024 * 1024

Sizes == {1, fileSize + 1}

\* response.data.choices[0].message.content of a 2xx answer
Contents ==
  {"ATS Score: 7/10",
   "ATS Compatibility Rating: 8.5/10",
   "ats compatibility score:6/10 ATS Compatibility Score: 3/10",
   "ATS Compatibility Score: 15/10",
   ""}

\* how the axios.post of analyzeWithAI ends
AIFailures == {"non2xx", "noResponse", "setup", "malformedBody"}

AIOutcomes ==
  [kind : {"ok"}, content : Contents] \cup [kind : AIFailures, content : {undefined}]

(***************************************************************************)
(* multer: storage and fileFilter.                                         *)
(***************************************************************************)
UPLOAD_DIR == "/tmp/uploads"

\* path.extname(file.originalname) over the names of the model
extnameOf == table([name \in OriginalNames |-> str(extname(chars[name]))])

\* the paths storage can produce: UPLOAD_DIR, and the name
\* fieldname + "-" + Date.now() + "-" + Math.round(Math.random() * 1e9) + extname
Paths ==
  [dir : {UPLOAD_DIR}, time : 0..MaxTime, rand : 0..MaxRand,
   ext : {extnameOf[name] : name \in OriginalNames}]

filename(t, rnd, originalname) ==
  [dir |-> UPLOAD_DIR, time |-> t, rand |-> rnd, ext |-> extnameOf[originalname]]

NoPath == [dir |-> "", time |-> 0, rand |-> 0, ext |-> ""]

\* a file of the disk: whose upload wrote it and what it holds
NoFile == [owner |-> 0, doc |-> "none"]

\* allowedTypes = /pdf|doc|docx/ ; allowedTypes.test(s)
allowedTypes(s) ==
  Contains(s, <<"p","d","f">>) \/ Contains(s, <<"d","o","c">>) \/ Contains(s, <<"d","o","c","x">>)

fileFilter(originalname, mimetype) ==
  /\ allowedTypes(chars[mimetype])
  /\ allowedTypes(toLowerCase(extname(chars[originalname])))

\* fileFilter over the uploads of the model, computed once
admitted ==
  table([name \in OriginalNames |-> {mime \in MimeTypes : fileFilter(name, mime)}])

\* path.extname(file.originalname).toLowerCase() over the names of the model
ext == table([name \in OriginalNames |-> str(toLowerCase(extname(chars[name])))])

\* fs.existsSync
existsSync(d, p) == p \in DOMAIN d /\ d[p] # NoFile

\* if (fs.existsSync(p)) fs.unlinkSync(p)
unlinkIfExists(d, p) ==
  IF existsSync(d, p) THEN [d EXCEPT ![p] = NoFile] ELSE d

(***************************************************************************)
(* analyzeWithAI.                                                          *)
(***************************************************************************)
AIErrorText ==
  "Error: Could not retrieve AI analysis due to an API failure. Please check backend logs."

\* analyzeWithAI as it would be if its catch block threw the error on
analyzeWithAIRethrows(outcome) ==
  IF outcome.kind = "ok"
  THEN [threw |-> FALSE, analysis |-> outcome.content,
        atsScore |-> parseScore(chars[outcome.content])]
  ELSE [threw |-> TRUE, analysis |-> undefined, atsScore |-> null]

\* The try block covers the call and the reading of the response, so every
\* failure ends in the catch block's return; threw says whether the function
\* rejects to its caller.
analyzeWithAI(outcome) ==
  IF outcome.kind = "ok"
  THEN [threw |-> FALSE, analysis |-> outcome.content,
        atsScore |-> parseScore(chars[outcome.content])]
  ELSE [threw |-> FALSE, analysis |-> AIErrorText, atsScore |-> null]

\* analyzeWithAI over the outcomes of the model, computed once
analysisOf == table([outcome \in AIOutcomes |-> analyzeWithAI(outcome)])

(***************************************************************************)
(* ResumeAnalysisSchema and ResumeAnalysis.create.                         *)
(***************************************************************************)
\* trim: true, over the file names and job roles of the model
trimmed ==
  table([t \in OriginalNames \cup (BodyJobRoles \ {undefined}) \cup {"Frontend Developer"}
           |-> str(trim(chars[t]))])

\* the setters of the schema: trim: true on fileName and jobRole
castDoc(fields) ==
  [fields EXCEPT !.fileName = trimmed[fields.fileName],
                 !.jobRole = trimmed[fields.jobRole]]

\* required as it would be if it accepted the empty string
requiredDefined(s) == s # undefined

\* required: [true, ...] on a String rejects the empty string
required(s) == s # undefined /\ s # ""

\* the validators as they would be without min and max on atsScore
invalidPathsUnbounded(doc) ==
  {p \in {"fileName", "jobRole", "resumeText", "aiFeedback"} : ~required(doc[p])}
    \cup (IF doc.user = "" THEN {"user"} ELSE {})

\* the paths of the cast document the validators reject
invalidPaths(doc) ==
  {p \in {"fileName", "jobRole", "resumeText", "aiFeedback"} : ~required(doc[p])}
    \cup (IF doc.atsScore # null /\ ~InRange(doc.atsScore) THEN {"atsScore"} ELSE {})
    \cup (IF doc.user = "" THEN {"user"} ELSE {})

\* the stored document as it would be if the schema had no trim: true
newDocumentUntrimmed(store, fields, t) ==
  [id |-> Len(store) + 1, fileName |-> fields.fileName,
   jobRole |-> fields.jobRole, resumeText |-> fields.resumeText,
   aiFeedback |-> fields.aiFeedback, atsScore |-> fields.atsScore,
   user |-> fields.user, createdAt |-> t]

\* the stored document: the cast fields, _id and timestamps.createdAt
newDocument(store, fields, t) ==
  [id |-> Len(store) + 1, fileName |-> castDoc(fields).fileName,
   jobRole |-> castDoc(fields).jobRole, resumeText |-> fields.resumeText,
   aiFeedback |-> fields.aiFeedback, atsScore |-> fields.atsScore,
   user |-> fields.user, createdAt |-> t]

(***************************************************************************)
(* Responses.                                                              *)
(***************************************************************************)
NoResp ==
  [status |-> 0, error |-> "", message |-> "", success |-> FALSE,
   jobRole |-> undefined, analysis |-> undefined, atsScore |-> null, analysisId |-> 0]

\* res.status(status).json({ error })
ErrorJson(status, error) == [NoResp EXCEPT !.status = status, !.error = error]

\* the global error handler: res.status(err.status || 500).json({ message })
errorHandler(errStatus, errMessage) ==
  [NoResp EXCEPT !.status = IF errStatus # 0 THEN errStatus ELSE 500,
                 !.message = IF errMessage # "" THEN errMessage
                             ELSE "An unexpected error occurred."]

\* res.json({ success: true, jobRole, analysis, atsScore, analysisId })
SuccessJson(jobRole, analysis, atsScore, analysisId) ==
  [NoResp EXCEPT !.status = 200, !.success = TRUE, !.jobRole = jobRole,
                 !.analysis = analysis, !.atsScore = atsScore,
                 !.analysisId = analysisId]

(***************************************************************************)
(* State.                                                                  *)
(***************************************************************************)
VARIABLES
  now,       \* Date.now()
  req,       \* the upload requests: inputs, position and locals of each
  disk,      \* the files of UPLOAD_DIR
  db,        \* the ResumeAnalysis collection, in order of creation
  lastRead   \* the response of the read endpoint that answered last

vars == <<now, req, disk, db, lastRead>>

\* the locals of handleResumeUpload before they are assigned, and after it returns
NoLocals ==
  [buf |-> NoFile, jobRole |-> undefined, resumeText |-> undefined,
   analysis |-> undefined, atsScore |-> null]

NewReq ==
  [pc |-> "new",
   \* the request: req.userId, req.body.jobRole, the name of the file part of
   \* the body, req.file.originalname and req.file.path
   userId |-> "", bodyJobRole |-> undefined, part |-> undefined,
   originalname |-> undefined, path |-> NoPath,
   local |-> NoLocals,
   \* what has happened: handleResumeUpload was called, the extraction
   \* succeeded, axios.post was called, it failed, ResumeAnalysis.create was
   \* called, the error that was caught or passed to next()
   handled |-> FALSE, extracted |-> FALSE, aiCalled |-> FALSE, aiFailed |-> FALSE,
   createCalled |-> FALSE, err |-> "", errPaths |-> {},
   resp |-> NoResp]

\* responses counts the times the handler set out to answer the request
NoRead ==
  [kind |-> "none", user |-> "", id |-> 0, status |-> 0, error |-> "",
   history |-> <<>>, pdf |-> <<>>, responses |-> 0]

Init ==
  /\ now = 0
  /\ req = [r \in Reqs |-> NewReq]
  /\ disk = [p \in Paths |-> NoFile]
  /\ db = <<>>
  /\ lastRead = NoRead

\* the event loop runs one callback at a time; the clock may advance between two
Tick ==
  /\ now < MaxTime
  /\ now' = now + 1
  /\ lastRead' = NoRead
  /\ UNCHANGED <<req, disk, db>>

(***************************************************************************)
(* POST /upload: authMiddleware, upload.single("resume"), handleResumeUpload*)
(***************************************************************************)
\* the request is answered: the handler returns and its locals are gone
answer(r, resp) == [r EXCEPT !.pc = "done", !.resp = resp, !.local = NoLocals]

\* authMiddleware: a token that verifies gives req.userId, any other ends in 401
authMiddleware(r, token) ==
  IF token = "missing"
  THEN answer(r, ErrorJson(401, "Missing or invalid authorization header"))
  ELSE IF token = "invalid"
       THEN answer(r, ErrorJson(401, "Invalid or expired token"))
       ELSE [r EXCEPT !.pc = "multer", !.userId = token]

\* a request arrives
Submit(r, in) ==
  /\ req[r].pc = "new"
  /\ \A q \in Reqs : q < r => req[q].pc # "new"   \* numbered as they arrive
  /\ \E token \in in.tokens :
       req' = [req EXCEPT ![r] = authMiddleware(@, token)]
  /\ lastRead' = NoRead
  /\ UNCHANGED <<now, disk, db>>

\* the handler as it would be if a branch did not delete the file
keepUnsupported(d, p) == d

keepParsed(d, p) == d

keepOnError(d, hasFile, p) == d

\* the files handleResumeUpload deletes: in the branch of an unsupported
\* extension, and after the text is extracted
cleanupUnsupported(d, p) == unlinkIfExists(d, p)

cleanupParsed(d, p) == unlinkIfExists(d, p)

\* catch (err): if (file && file.path && fs.existsSync(file.path)) unlinkSync
cleanupOnError(d, hasFile, p) ==
  IF hasFile /\ p # NoPath THEN unlinkIfExists(d, p) ELSE d

\* the status of the catch block's answer
catchStatus == 500

\* the catch block as it would be if it answered without deleting the file
catchBlockWithoutCleanup(r, e, paths) ==
  /\ disk' = disk
  /\ req' = [req EXCEPT ![r] =
       answer([@ EXCEPT !.err = e, !.errPaths = paths],
              ErrorJson(catchStatus, "Failed to process resume. Please check server logs."))]

\* the catch block of handleResumeUpload
catchBlock(r, e, paths) ==
  /\ disk' = cleanupOnError(disk, req[r].originalname # undefined, req[r].path)
  /\ req' = [req EXCEPT ![r] =
       answer([@ EXCEPT !.err = e, !.errPaths = paths],
              ErrorJson(catchStatus, "Failed to process resume. Please check server logs."))]

\* const jobRole = req.body.jobRole || "Frontend Developer"
resolveJobRole(bodyJobRole) ==
  IF bodyJobRole = undefined \/ bodyJobRole = ""
  THEN "Frontend Developer" ELSE bodyJobRole

\* the answer as it would be without the test of file: file.originalname
\* throws and the catch block answers
noFileUnchecked ==
  ErrorJson(catchStatus, "Failed to process resume. Please check server logs.")

\* if (!file) return res.status(400).json({ error: "No file uploaded" })
noFileResponse == ErrorJson(400, "No file uploaded")

\* handleResumeUpload from its entry to its first await, req.file being set
handlerEntry(r, role) ==
  LET file == req[r]
      jobRole == resolveJobRole(role)
      entered == [file EXCEPT !.bodyJobRole = role, !.local.jobRole = jobRole,
                              !.handled = TRUE]
  IN  IF ext[file.originalname] = ".pdf"
      THEN \* fs.readFileSync(file.path), then await pdfParse(dataBuffer)
           IF existsSync(disk, file.path)
           THEN /\ req' = [req EXCEPT ![r] =
                             [entered EXCEPT !.pc = "parsing", !.local.buf = disk[file.path]]]
                /\ disk' = disk
           ELSE /\ disk' = cleanupOnError(disk, TRUE, file.path)
                /\ req' = [req EXCEPT ![r] =
                     answer([entered EXCEPT !.err = "ENOENT"],
                            ErrorJson(catchStatus,
                              "Failed to process resume. Please check server logs."))]
      ELSE IF ext[file.originalname] = ".docx"
      THEN \* await mammoth.extractRawText({ path: file.path })
           /\ req' = [req EXCEPT ![r] = [entered EXCEPT !.pc = "parsing"]]
           /\ disk' = disk
      ELSE \* unsupported file type
           /\ disk' = cleanupUnsupported(disk, file.path)
           /\ req' = [req EXCEPT ![r] =
                answer(entered, ErrorJson(400,
                         "Unsupported file type. Please upload PDF or DOCX."))]

\* multer reads the multipart body: no file part, a file the filter rejects, or
\* a file the storage starts to write under a fresh name
MulterFile(r, in) ==
  /\ req[r].pc = "multer"
  /\ \/ \* no file: next(), and handleResumeUpload answers at once
        \E role \in in.roles :
          /\ req' = [req EXCEPT ![r] =
               answer([@ EXCEPT !.bodyJobRole = role, !.handled = TRUE],
                      noFileResponse)]
          /\ disk' = disk
     \/ \E name \in in.names, mime \in in.mimes :
          /\ mime \notin admitted[name]
          /\ req' = [req EXCEPT ![r] =
               answer([@ EXCEPT !.part = name, !.err = "FileFilterError"],
                      errorHandler(0, "Only PDF, DOC, and DOCX files are allowed"))]
          /\ disk' = disk
     \/ \E name \in in.names, mime \in in.mimes, doc \in in.docs, rnd \in 0..MaxRand :
          /\ mime \in admitted[name]
          /\ req' = [req EXCEPT ![r] = [@ EXCEPT !.pc = "uploading", !.part = name,
                       !.originalname = name, !.path = filename(now, rnd, name)]]
          /\ disk' = [disk EXCEPT ![filename(now, rnd, name)] = [owner |-> r, doc |-> doc]]
  /\ lastRead' = NoRead
  /\ UNCHANGED <<now, db>>

\* the file part ends: over limits.fileSize multer removes the file and fails,
\* otherwise req.file is set and handleResumeUpload runs to its first await
MulterDone(r, in) ==
  /\ req[r].pc = "uploading"
  /\ \E size \in in.sizes, role \in in.roles :
       IF size > fileSize
       THEN /\ disk' = unlinkIfExists(disk, req[r].path)
            /\ req' = [req EXCEPT ![r] =
                 answer([@ EXCEPT !.err = "LIMIT_FILE_SIZE"],
                        errorHandler(0, "File too large"))]
       ELSE handlerEntry(r, role)
  /\ lastRead' = NoRead
  /\ UNCHANGED <<now, db>>

\* pdfParse or mammoth.extractRawText settles; on success the handler runs on
\* to the await of analyzeWithAI, whose first await is axios.post
ExtractDone(r) ==
  /\ req[r].pc = "parsing"
  /\ LET content == IF ext[req[r].originalname] = ".pdf"
                    THEN req[r].local.buf ELSE disk[req[r].path]
     IN  IF content = NoFile THEN catchBlock(r, "ENOENT", {})
         ELSE IF content.doc = "corrupt" THEN catchBlock(r, "DecodeError", {})
         ELSE /\ disk' = cleanupParsed(disk, req[r].path)
              /\ req' = [req EXCEPT ![r] = [@ EXCEPT !.pc = "ai",
                           !.local.buf = content,
                           !.local.resumeText = textOf[content.doc],
                           !.extracted = TRUE, !.aiCalled = TRUE]]
  /\ lastRead' = NoRead
  /\ UNCHANGED <<now, db>>

\* axios.post settles; analyzeWithAI returns and the handler calls
\* ResumeAnalysis.create
AIDone(r, in) ==
  /\ req[r].pc = "ai"
  /\ \E outcome \in in.outcomes :
       LET res == analysisOf[outcome]
       IN  IF res.threw
           THEN catchBlock(r, "AIError", {})
           ELSE /\ req' = [req EXCEPT ![r] = [@ EXCEPT !.pc = "saving",
                             !.local.analysis = res.analysis,
                             !.local.atsScore = res.atsScore,
                             !.aiFailed = (outcome.kind # "ok"),
                             !.createCalled = TRUE]]
                /\ disk' = disk
  /\ lastRead' = NoRead
  /\ UNCHANGED <<now, db>>

\* the fields handleResumeUpload passes to ResumeAnalysis.create
createFields(r) ==
  [fileName |-> r.originalname, jobRole |-> r.local.jobRole,
   resumeText |-> r.local.resumeText, aiFeedback |-> r.local.analysis,
   atsScore |-> r.local.atsScore, user |-> r.userId]

\* ResumeAnalysis.create settles: validation error, store error, or the new
\* document, which the handler answers with
CreateDone(r) ==
  /\ req[r].pc = "saving"
  /\ \E storeOk \in BOOLEAN :
       LET fields == createFields(req[r])
           invalid == invalidPaths(castDoc(fields))
       IN  IF invalid # {}
           THEN catchBlock(r, "ValidationError", invalid) /\ UNCHANGED db
           ELSE IF ~storeOk
           THEN catchBlock(r, "MongoError", {}) /\ UNCHANGED db
           ELSE LET newAnalysis == newDocument(db, fields, now)
                IN  /\ db' = Append(db, newAnalysis)
                    /\ req' = [req EXCEPT ![r] =
                         answer(@, SuccessJson(req[r].local.jobRole, req[r].local.analysis,
                                               req[r].local.atsScore, newAnalysis.id))]
                    /\ disk' = disk
  /\ lastRead' = NoRead
  /\ UNCHANGED now

(***************************************************************************)
(* GET /history and GET /download/:id, for a caller authMiddleware admits. *)
(***************************************************************************)
\* the query as it would be without its filter
findAll(store, userId) == 1..Len(store)

\* ResumeAnalysis.find({ user: userId }): the positions of the matching documents
find(store, userId) == {i \in 1..Len(store) : store[i].user = userId}

\* .select("fileName jobRole createdAt atsScore aiFeedback"), with _id
select(doc) ==
  [id |-> doc.id, fileName |-> doc.fileName, jobRole |-> doc.jobRole,
   createdAt |-> doc.createdAt, atsScore |-> doc.atsScore,
   aiFeedback |-> doc.aiFeedback]

\* .sort({ createdAt: -1 }): a before b is an order the sort may give
sortOrder(a, b) == a.createdAt >= b.createdAt

\* the results the query may give: the matching documents, each once, in an
\* order of the sort (documents of one instant come in either order)
historyQuery(store, userId) ==
  LET hits == find(store, userId)
      n == Cardinality(hits)
  IN  {[k \in 1..n |-> select(store[f[k]])] :
         f \in {g \in [1..n -> hits] :
                  /\ \A i, j \in 1..n : i # j => g[i] # g[j]
                  /\ \A i, j \in 1..n : i < j => sortOrder(store[g[i]], store[g[j]])}}

GetHistory(u) ==
  /\ \/ \E history \in historyQuery(db, u) :
          lastRead' = [NoRead EXCEPT !.kind = "history", !.user = u, !.status = 200,
                                     !.history = history, !.responses = 1]
     \/ \* the query rejects
        lastRead' = [NoRead EXCEPT !.kind = "history", !.user = u, !.status = 500,
                                   !.error = "Failed to fetch resume history",
                                   !.responses = 1]
  /\ UNCHANGED <<now, req, disk, db>>

\* the ids a caller may ask for: 0 stands for a string that is no ObjectId,
\* Len(db) + 1 and above for ObjectIds of no document
Ids == 0..(MaxReq + 1)

\* the test as it would be without the comparison of the owner
deniedIfMissing(store, id, userId) == id \notin 1..Len(store)

\* if (!resume || resume.user.toString() !== req.userId) return 404
downloadDenied(store, id, userId) ==
  id \notin 1..Len(store) \/ store[id].user # userId

\* what the PDF report prints of the document
report(doc) ==
  [fileName |-> doc.fileName, jobRole |-> doc.jobRole, createdAt |-> doc.createdAt,
   atsScore |-> doc.atsScore, aiFeedback |-> doc.aiFeedback]

GetDownload(u, id) ==
  /\ IF id = 0
     THEN \* findById rejects with a CastError
          lastRead' = [NoRead EXCEPT !.kind = "download", !.user = u, !.id = id,
                         !.status = 500, !.error = "Failed to generate PDF report",
                         !.responses = 1]
     ELSE \/ \* findById rejects
             lastRead' = [NoRead EXCEPT !.kind = "download", !.user = u, !.id = id,
                            !.status = 500, !.error = "Failed to generate PDF report",
                            !.responses = 1]
          \/ IF downloadDenied(db, id, u)
             THEN lastRead' = [NoRead EXCEPT !.kind = "download", !.user = u,
                                 !.id = id, !.status = 404,
                                 !.error = "Resume analysis not found",
                                 !.responses = 1]
             ELSE \/ \* doc.pipe(res), the text calls and doc.end() go through
                     lastRead' = [NoRead EXCEPT !.kind = "download", !.user = u,
                                    !.id = id, !.status = 200,
                                    !.pdf = <<report(db[id])>>, !.responses = 1]
                  \/ \* a call after doc.pipe(res) throws: the catch block answers
                     \* res.status(500).json(...) on the response the document is
                     \* piped to; the caller gets the one that reaches it first
                     \E first \in {"json", "pdf"} :
                       lastRead' =
                         IF first = "json"
                         THEN [NoRead EXCEPT !.kind = "download", !.user = u,
                                 !.id = id, !.status = 500,
                                 !.error = "Failed to generate PDF report",
                                 !.responses = 2]
                         ELSE [NoRead EXCEPT !.kind = "download", !.user = u,
                                 !.id = id, !.status = 200,
                                 !.pdf = <<report(db[id])>>, !.responses = 2]
  /\ UNCHANGED <<now, req, disk, db>>

(***************************************************************************)
(* Specifications.  Spec is the upload route over all the inputs of the    *)
(* model.  SpecRead adds the two read routes; its uploads draw from the    *)
(* inputs the reads can tell apart: the owner, the instant of creation and *)
(* whether there is a score.                                               *)
(***************************************************************************)
AllInputs ==
  [tokens |-> Users \cup {"missing", "invalid"}, roles |-> BodyJobRoles,
   names |-> OriginalNames, mimes |-> MimeTypes, docs |-> Docs, sizes |-> Sizes,
   outcomes |-> AIOutcomes]

ReadInputs ==
  [tokens |-> Users, roles |-> {undefined}, names |-> {"a.pdf"},
   mimes |-> {"application/pdf"}, docs |-> {"cv"}, sizes |-> {1},
   outcomes |-> {[kind |-> "ok", content |-> "ATS Compatibility Rating: 8.5/10"],
                 [kind |-> "non2xx", content |-> undefined]}]

Upload(in) ==
  \/ Tick
  \/ \E r \in Reqs : Submit(r, in)
  \/ \E r \in Reqs : MulterFile(r, in)
  \/ \E r \in Reqs : MulterDone(r, in)
  \/ \E r \in Reqs : ExtractDone(r)
  \/ \E r \in Reqs : AIDone(r, in)
  \/ \E r \in Reqs : CreateDone(r)

Next == Upload(AllInputs)

Spec == Init /\ [][Next]_vars

NextRead ==
  \/ Upload(ReadInputs)
  \/ \E u \in Users : GetHistory(u)
  \/ \E u \in Users, id \in Ids : GetDownload(u, id)

SpecRead == Init /\ [][NextRead]_vars

\* SpecLive is the upload route under the assumption that an axios.post that
\* was issued settles, with a response or with an error, after which the event
\* loop runs the continuation of analyzeWithAI.  Its uploads draw from the
\* inputs that decide whether a request gets from the extraction to
\* ResumeAnalysis.create: the decoder, the text and the outcome of the AI call.
LiveInputs ==
  [tokens |-> {"u1", "invalid"}, roles |-> {undefined}, names |-> {"a.pdf", " B.DOCX"},
   mimes |-> {"application/pdf"}, docs |-> Docs, sizes |-> {1},
   outcomes |-> {[kind |-> "ok", content |-> "ATS Compatibility Rating: 8.5/10"],
                 [kind |-> "ok", content |-> ""],
                 [kind |-> "noResponse", content |-> undefined],
                 [kind |-> "malformedBody", content |-> undefined]}]

NextLive == Upload(LiveInputs)

SpecLive ==
  /\ Init
  /\ [][NextLive]_vars
  /\ \A r \in Reqs : WF_vars(AIDone(r, LiveInputs))

(***************************************************************************)
(* Properties of the upload route.                                         *)
(***************************************************************************)
\* the file the upload r wrote is on the disk
ownFile(r) == \E p \in Paths : disk[p].owner = r

\* C1: once the text of an upload has been extracted, the temporary file the
\* upload wrote is not on the disk: not when the AI call is issued, not while
\* it is pending, not after it has succeeded or degraded to the placeholder,
\* and not after the answer.
C1_FileDeletedBeforeAI ==
  \A r \in Reqs : (req[r].extracted \/ req[r].aiCalled) => ~ownFile(r)

\* an upload whose AI call degraded after its text was extracted
C1_Witness ==
  \E r \in Reqs :
    req[r].extracted /\ req[r].aiCalled /\ req[r].aiFailed /\ req[r].pc = "saving"

\* C2: for every failure of the AI call analyzeWithAI does not throw and returns
\* the placeholder, which is not empty, with a null score; the handler goes on
\* to ResumeAnalysis.create with these, and the upload ends in success with a
\* record holding them, or in an error the AI failure did not cause (the store
\* failed, or the validation rejected a path other than aiFeedback and atsScore).
C2_AIFailureDegrades ==
  /\ AIErrorText # ""
  /\ \A outcome \in AIOutcomes :
       outcome.kind # "ok" =>
         analysisOf[outcome] =
           [threw |-> FALSE, analysis |-> AIErrorText, atsScore |-> null]
  /\ \A r \in Reqs :
       /\ req[r].err # "AIError"
       /\ req[r].aiFailed /\ req[r].pc = "saving" =>
            /\ req[r].local.analysis = AIErrorText
            /\ req[r].local.atsScore = null
       /\ req[r].aiFailed /\ req[r].pc = "done" =>
            \/ /\ req[r].resp.success
               /\ req[r].resp.status = 200
               /\ req[r].resp.analysis = AIErrorText
               /\ req[r].resp.atsScore = null
               /\ req[r].resp.analysisId \in 1..Len(db)
               /\ db[req[r].resp.analysisId].aiFeedback = AIErrorText
               /\ db[req[r].resp.analysisId].atsScore = null
            \/ /\ req[r].resp.status = 500
               /\ req[r].err \in {"ValidationError", "MongoError"}
               /\ req[r].errPaths \cap {"aiFeedback", "atsScore"} = {}

\* an upload whose AI call failed and which ended in success
C2_Witness ==
  \E r \in Reqs : req[r].aiFailed /\ req[r].pc = "done" /\ req[r].resp.success

\* C3 as the specification states it: an upload whose decoder throws ends with
\* its file deleted, no AI call, no record, and a 400 answer.
C3_AsStated ==
  \A r \in Reqs :
    req[r].pc = "done" /\ req[r].err = "DecodeError" =>
      /\ ~ownFile(r)
      /\ ~req[r].aiCalled
      /\ ~req[r].createCalled
      /\ req[r].resp.status = 400

\* C3: an upload whose decoder throws ends with its file deleted, no AI call,
\* no call of ResumeAnalysis.create, and the answer of the catch block: status
\* 500, "Failed to process resume. Please check server logs."
C3_ExtractionFailure ==
  \A r \in Reqs :
    req[r].pc = "done" /\ req[r].err = "DecodeError" =>
      /\ ~ownFile(r)
      /\ ~req[r].extracted
      /\ ~req[r].aiCalled
      /\ ~req[r].createCalled
      /\ req[r].resp =
           ErrorJson(500, "Failed to process resume. Please check server logs.")

\* an upload of corrupt bytes whose decoder threw
C3_Witness ==
  \E r \in Reqs :
    req[r].pc = "done" /\ req[r].err = "DecodeError" /\ req[r].resp.status = 500

\* the extensions the extractor supports
extractable == {".pdf", ".docx"}

\* C4: an upload that reaches handleResumeUpload with a file whose extension
\* the extractor does not support ends with the file deleted, no extraction,
\* no AI call, no record, and the answer 400 "Unsupported file type. Please
\* upload PDF or DOCX."
C4_UnsupportedInHandler ==
  \A r \in Reqs :
    /\ req[r].pc = "done" /\ req[r].handled
    /\ req[r].originalname # undefined
    /\ ext[req[r].originalname] \notin extractable
    => /\ ~ownFile(r)
       /\ ~req[r].extracted
       /\ ~req[r].aiCalled
       /\ ~req[r].createCalled
       /\ req[r].resp =
            ErrorJson(400, "Unsupported file type. Please upload PDF or DOCX.")

\* a file named c.doc or e.docm that passed the filter and reached the handler
C4_Witness ==
  \E r \in Reqs :
    /\ req[r].pc = "done" /\ req[r].handled
    /\ req[r].originalname \in {"c.doc", "e.docm"}
    /\ req[r].resp.status = 400

\* The pattern the specification gives for the score: "ATS", optionally
\* " Compatibility", then " ", "Score" or "Rating", ":", the number and "/10",
\* case-insensitive; the group of the match at position i, or NoMatch.
StatedPatternAt(s, i) ==
  IF ~LitAt(s, i, <<"A","T","S">>, TRUE) THEN NoMatch
  ELSE LET long == IF LitAt(s, i + 3, <<" ","C","o","m","p","a","t","i","b","i","l","i","t","y"," ">>, TRUE)
                   THEN ScoreTailAt(s, i + 3 + Len(<<" ","C","o","m","p","a","t","i","b","i","l","i","t","y"," ">>))
                   ELSE NoMatch
           short == IF LitAt(s, i + 3, <<" ">>, TRUE)
                    THEN ScoreTailAt(s, i + 4) ELSE NoMatch
       IN  IF long # NoMatch THEN long ELSE short

\* the score of the first match of that pattern, null when there is none
StatedScore(content) ==
  LET starts == {i \in 1..Len(content) : StatedPatternAt(content, i) # NoMatch}
  IN  IF starts = {} THEN null
      ELSE parseFloat(StatedPatternAt(content,
                        CHOOSE i \in starts : \A k \in starts : i <= k))

statedScoreOf == table([content \in Contents |-> StatedScore(chars[content])])

\* C5 as the specification states it: the score analyzeWithAI returns for a 2xx
\* answer is 7 when the text contains "ATS Score: 7/10", 8.5 when it contains
\* "ATS Compatibility Rating: 8.5/10", the number of the first phrase when
\* there are several, and null when there is none.
C5_AsStated ==
  \A r \in Reqs :
    req[r].pc = "saving" /\ ~req[r].aiFailed =>
      LET content == chars[req[r].local.analysis]
          atsScore == req[r].local.atsScore
      IN  /\ Contains(content, <<"A","T","S"," ","S","c","o","r","e",":"," ","7","/","1","0">>) => atsScore = Num(7, 0)
          /\ Contains(content, <<"A","T","S"," ","C","o","m","p","a","t","i","b","i","l","i","t","y"," ","R","a","t","i","n","g",":"," ","8",".","5","/","1","0">>) =>
               atsScore = Num(85, 1)
          /\ atsScore = statedScoreOf[req[r].local.analysis]

\* C6: an upload that has been answered, with any status, has no file of its
\* own on the disk.
C6_NoFileOutlivesRequest ==
  \A r \in Reqs : req[r].pc = "done" => ~ownFile(r)

\* an upload that failed after its text was extracted: the catch block finds
\* the file already deleted
C6_Witness ==
  \E r \in Reqs :
    /\ req[r].pc = "done" /\ req[r].extracted /\ req[r].resp.status = 500
    /\ ~existsSync(disk, req[r].path)

\* the uploads a step answers with success
succeeding == {r \in Reqs : req[r].pc # "done" /\ req'[r].pc = "done" /\ req'[r].resp.success}

\* the job role of an upload: the caller's, "Frontend Developer" when omitted
roleOf(r) ==
  IF req[r].bodyJobRole = undefined THEN "Frontend Developer" ELSE req[r].bodyJobRole

\* the step answers upload r with success: it adds one record, which holds the
\* given file name and job role, the normalized text of the document that was
\* decoded, the feedback and score analyzeWithAI returned and the user of the
\* token; the answer has the given job role and the record's other values
recordedAs(r, fileName, jobRole, answeredRole) ==
  /\ Len(db') = Len(db) + 1
  /\ SubSeq(db', 1, Len(db)) = db
  /\ LET rec == db'[Len(db')]
         resp == req'[r].resp
     IN  /\ rec.fileName = fileName
         /\ rec.jobRole = jobRole
         /\ rec.resumeText = textOf[req[r].local.buf.doc]
         /\ rec.aiFeedback = req[r].local.analysis
         /\ rec.atsScore = req[r].local.atsScore
         /\ rec.user = req[r].userId
         /\ \A i \in 1..Len(db) : db[i].id # rec.id
         /\ resp.jobRole = answeredRole
         /\ resp.analysis = rec.aiFeedback
         /\ resp.atsScore = rec.atsScore
         /\ resp.analysisId = rec.id

\* C7 as the specification states it: a step that answers no upload with
\* success leaves the records as they are; a step that answers one with success
\* adds one record, holding the original file name, the job role, the
\* normalized text, the feedback, the score and the user, and the answer's
\* jobRole, analysis, atsScore and analysisId are the record's.
C7_AsStated ==
  [][IF succeeding = {} THEN db' = db
     ELSE \E r \in succeeding :
            /\ succeeding = {r}
            /\ recordedAs(r, req[r].originalname, roleOf(r), db'[Len(db')].jobRole)]_vars

\* C7: a step that answers no upload with success leaves the records as they
\* are; a step that answers one with success adds one record, holding the
\* original file name and the job role, each without the blanks around it, the
\* normalized text, the feedback, the score and the user; the answer's
\* analysis, atsScore and analysisId are the record's, and its jobRole is the
\* job role with its blanks.
C7_RecordPerSuccess ==
  [][IF succeeding = {} THEN db' = db
     ELSE \E r \in succeeding :
            /\ succeeding = {r}
            /\ recordedAs(r, trimmed[req[r].originalname], trimmed[roleOf(r)],
                          roleOf(r))]_vars

\* an upload named " B.DOCX" for the role " BE " that ended in success, its
\* record holding "B.DOCX" and "BE"
C7_Witness ==
  \E r \in Reqs :
    /\ req[r].pc = "done" /\ req[r].resp.success
    /\ req[r].originalname = " B.DOCX" /\ req[r].bodyJobRole = " BE "
    /\ req[r].resp.jobRole = " BE "
    /\ db[req[r].resp.analysisId].fileName = "B.DOCX"
    /\ db[req[r].resp.analysisId].jobRole = "BE"

\* the extensions of the allow-set
allowSet == {".pdf", ".doc", ".docx"}

\* C10 as the specification states it: an upload whose file has an extension
\* outside the allow-set is answered 400 with an unsupported-type error, is
\* never extracted, stores no record and leaves no file.
C10_AsStated ==
  \A r \in Reqs :
    req[r].pc = "done" /\ req[r].part # undefined /\ ext[req[r].part] \notin allowSet
    => /\ req[r].resp.status = 400
       /\ \/ req[r].resp.error = "Unsupported file type. Please upload PDF or DOCX."
          \/ req[r].resp.message = "Only PDF, DOC, and DOCX files are allowed"
       /\ ~req[r].extracted
       /\ ~req[r].createCalled
       /\ ~ownFile(r)

\* C11 as the specification states it: an upload whose file has an extension of
\* the allow-set and passes the filter is not answered as an unsupported file
\* type: its file goes to a decoder, which extracts its text or throws.
C11_AsStated ==
  \A r \in Reqs :
    /\ req[r].pc = "done" /\ req[r].handled
    /\ req[r].originalname # undefined
    /\ ext[req[r].originalname] \in allowSet
    => /\ req[r].resp.error # "Unsupported file type. Please upload PDF or DOCX."
       /\ req[r].extracted \/ req[r].err \in {"DecodeError", "ENOENT"}

\* C12: when ResumeAnalysis.create fails, by validation or in the store, the
\* upload is answered 500 by the catch block and no record is stored for it
\* (the records are as many as the uploads answered with success); the file of
\* an upload is off the disk from the moment create is called; and every
\* stored record has an atsScore that is null or within [0, 10].
C12_CreationFailure ==
  /\ \A r \in Reqs :
       /\ req[r].pc = "saving" => req[r].createCalled /\ ~ownFile(r)
       /\ req[r].pc = "done" /\ req[r].err \in {"ValidationError", "MongoError"} =>
            /\ req[r].createCalled
            /\ ~ownFile(r)
            /\ ~req[r].resp.success
            /\ req[r].resp =
                 ErrorJson(500, "Failed to process resume. Please check server logs.")
       /\ req[r].pc = "done" /\ req[r].err = "ValidationError" => req[r].errPaths # {}
  /\ Len(db) = Cardinality({r \in Reqs : req[r].pc = "done" /\ req[r].resp.success})
  /\ \A i \in 1..Len(db) : db[i].atsScore = null \/ InRange(db[i].atsScore)

\* an upload whose AI answer gave the score 15/10, rejected by the validation
C12_Witness ==
  \E r \in Reqs :
    /\ req[r].pc = "done" /\ req[r].err = "ValidationError"
    /\ "atsScore" \in req[r].errPaths
    /\ req[r].resp.status = 500

\* C13: the step in which handleResumeUpload runs for a request without a file
\* answers 400 "No file uploaded", leaves the disk and the records as they are,
\* and extracts nothing, calls neither the AI nor ResumeAnalysis.create.
C13_NoFile ==
  [][\A r \in Reqs :
       /\ req[r].pc = "multer" /\ req'[r].pc = "done"
       /\ req'[r].handled /\ req'[r].part = undefined
       => /\ req'[r].resp = ErrorJson(400, "No file uploaded")
          /\ disk' = disk
          /\ db' = db
          /\ ~req'[r].extracted
          /\ ~req'[r].aiCalled
          /\ ~req'[r].createCalled]_vars

\* an upload without a file that the handler has answered, while the file of
\* another upload is on the disk
C13_Witness ==
  \E r \in Reqs :
    /\ req[r].pc = "done" /\ req[r].handled /\ req[r].part = undefined
    /\ req[r].resp.status = 400
    /\ \E p \in Paths : existsSync(disk, p)

C15_AsStated ==
  \A r \in Reqs :
    req[r].pc = "saving" =>
      /\ req[r].local.analysis # ""
      /\ req[r].local.atsScore = null \/ InRange(req[r].local.atsScore)

\* C15: analyzeWithAI never throws.  For a failure of the AI call its result is
\* the placeholder, which is not empty, with a null score.  For a 2xx answer the
\* feedback is the content of the answer as it is, empty if that is empty, and
\* the score is null or the number parsed from the content, which is not
\* negative and may exceed 10.  The results the handler holds are of these, and
\* no stored record has an empty feedback or a score outside [0, 10].
C15_ResultOfAnalysis ==
  /\ AIErrorText # ""
  /\ \A outcome \in AIOutcomes :
       LET res == analysisOf[outcome]
       IN  /\ ~res.threw
           /\ outcome.kind # "ok" =>
                res.analysis = AIErrorText /\ res.atsScore = null
           /\ outcome.kind = "ok" =>
                /\ res.analysis = outcome.content
                /\ res.atsScore = null \/ res.atsScore.m >= 0
  /\ \A r \in Reqs :
       req[r].pc = "saving" =>
         \E outcome \in AIOutcomes :
           /\ req[r].local.analysis = analysisOf[outcome].analysis
           /\ req[r].local.atsScore = analysisOf[outcome].atsScore
           /\ req[r].aiFailed = (outcome.kind # "ok")
  /\ \A i \in 1..Len(db) :
       /\ db[i].aiFeedback # ""
       /\ db[i].atsScore = null \/ InRange(db[i].atsScore)

\* a result with the score 15, returned for an answer that says 15/10
C15_Witness ==
  \E r \in Reqs :
    /\ req[r].pc = "saving" /\ ~req[r].aiFailed
    /\ req[r].local.atsScore = Num(15, 0)
    /\ ~InRange(req[r].local.atsScore)

\* the uploads that are being handled and have been given a file name
inFlight == {r \in Reqs : req[r].pc \notin {"new", "multer", "done"}}

\* C16 as the specification states it: after every step, no two uploads in
\* flight have the same file name and the bytes an upload has read are those it
\* wrote; and a step that removes a file from the disk is a step of the
\* upload that wrote it.
C16_AsStated ==
  [][/\ \A r, q \in Reqs :
          r # q /\ r \in inFlight' /\ q \in inFlight' => req'[r].path # req'[q].path
     /\ \A r \in Reqs :
          req'[r].local.buf # NoFile => req'[r].local.buf.owner = r
     /\ \A p \in Paths :
          disk[p] # NoFile /\ disk'[p] = NoFile =>
            req'[disk[p].owner] # req[disk[p].owner]]_vars

(***************************************************************************)
(* Properties of the read routes.                                          *)
(***************************************************************************)
\* the records of the user the last read was for
ownRecords == {i \in 1..Len(db) : db[i].user = lastRead.user}

\* C8: a history the endpoint returns to a user holds the records of that user,
\* each once and as the projection of the stored record, holds no record of
\* another user, and is ordered by creation time, newest first.
C8_HistoryOfOwner ==
  lastRead.kind = "history" /\ lastRead.status = 200 =>
    LET history == lastRead.history
    IN  /\ Len(history) = Cardinality(ownRecords)
        /\ \A i \in ownRecords : \E k \in 1..Len(history) :
             history[k] = [id |-> db[i].id, fileName |-> db[i].fileName,
                           jobRole |-> db[i].jobRole, createdAt |-> db[i].createdAt,
                           atsScore |-> db[i].atsScore, aiFeedback |-> db[i].aiFeedback]
        /\ \A k \in 1..Len(history) : \E i \in ownRecords : history[k].id = db[i].id
        /\ \A j, k \in 1..Len(history) :
             j < k => history[j].createdAt >= history[k].createdAt

\* a history of one record returned while another user's record is stored
C8_Witness ==
  /\ lastRead.kind = "history" /\ lastRead.status = 200
  /\ Len(lastRead.history) = 1
  /\ \E i \in 1..Len(db) : db[i].user # lastRead.user

\* C9: a download of a well-formed id that names no record or names a record of
\* another user emits no report, and its answer is one of two that depend on
\* nothing stored: 404 "Resume analysis not found", or the 500 of a failed
\* query; a report that is emitted is of a record of the caller.
C9_ForeignAsMissing ==
  lastRead.kind = "download" /\ lastRead.id # 0 =>
    /\ lastRead.id \notin ownRecords =>
         /\ lastRead.pdf = <<>>
         /\ \/ lastRead.status = 404 /\ lastRead.error = "Resume analysis not found"
            \/ lastRead.status = 500 /\ lastRead.error = "Failed to generate PDF report"
    /\ lastRead.pdf # <<>> =>
         /\ lastRead.id \in ownRecords
         /\ lastRead.pdf = <<report(db[lastRead.id])>>

\* a download of a stored record of another user, answered 404
C9_Witness ==
  /\ lastRead.kind = "download" /\ lastRead.status = 404
  /\ lastRead.id \in 1..Len(db)
  /\ db[lastRead.id].user # lastRead.user

\* C17 as the specification states it: an upload has an answer exactly when its
\* handling has ended, and the download handler sets out to answer a request
\* once, also when a call fails after the document is piped to the response.
C17_AsStated ==
  /\ \A r \in Reqs : (req[r].pc = "done") <=> (req[r].resp.status # 0)
  /\ lastRead.kind = "download" => lastRead.responses = 1

=============================================================================
